---- MODULE Spec2Model ----
(***************************************************************************)
(* AutoDS: the self-correcting execution loop.                             *)
(*                                                                         *)
(* The model follows Orchestrator.run_plan (src/src/core/orchestrator.py), *)
(* StateManager (src/src/core/state_manager.py), CodeExecutor              *)
(* (src/src/core/code_executor.py) and the two code producers              *)
(* (src/src/agents/coder_agent.py, src/src/agents/debugger_agent.py).      *)
(* The language model and the generated code are opaque: every answer of   *)
(* the service and every behaviour of the subordinate process is chosen    *)
(* nondeterministically from a small set.                                  *)
(***************************************************************************)
EXTENDS Integers, Sequences, FiniteSets, TLC

(***************************************************************************)
(* Bounds of the model.                                                    *)
(***************************************************************************)
\* largest number of rows of a dataframe
MaxRows == 1
\* largest number of ledger entries one Orchestrator accumulates (all calls)
MaxLedger == 2
\* the clock is followed for this many ticks
MaxClock == 6
\* largest number of StateManager instances constructed
MaxManagers == 3
\* largest number of steps in an answer of the Plan Producer
MaxSteps == 2
\* number of Orchestrator instances that run side by side
MaxInstances == 2

(***************************************************************************)
(* Program constants.                                                      *)
(***************************************************************************)
\* for attempt in range(3)
MaxAttempts == 3

\* ticks of the clock per second (a tick is the resolution of the model)
TicksPerSecond == 2

\* Python's None, and an absent file
None == [none |-> TRUE]

(***************************************************************************)
(* Dataframes and the CSV transfer format.                                 *)
(***************************************************************************)
Columns == {"X"}
Dtypes == {"object", "category"}

\* a pandas DataFrame: its columns, its number of rows, the dtype of its cells
\* (a frame without columns is the empty frame)
DataFrames ==
    { d \in [cols : SUBSET Columns, rows : 0..MaxRows, dtype : Dtypes] :
        d.cols = {} => (d.rows = 0 /\ d.dtype = "object") }

\* len(df.columns) == 0 or len(df) == 0
IsEmpty(d) == d.cols = {} \/ d.rows = 0

\* DataFrame.to_csv(path, index=False): a header row and the cells as text;
\* the dtype is not part of the file
to_csv(d) ==
    [cols  |-> d.cols,
     rows  |-> d.rows,
     cells |-> IF IsEmpty(d) THEN "none" ELSE "text"]

CsvFiles == {to_csv(d) : d \in DataFrames}

\* a file that is not comma-separated text
Garbled == [garbled |-> TRUE]

\* what a path handed to load_csv may hold: nothing, garbage, or a table
InputFiles == CsvFiles \cup {None, Garbled}

\* pd.read_csv raises EmptyDataError on a file without columns
read_csv_raises(f) == f = None \/ f = Garbled \/ f.cols = {}

\* pd.read_csv(path): dtypes are inferred from the cells (a categorical
\* column comes back as object, and so does a column without rows)
read_csv(f) == [cols |-> f.cols, rows |-> f.rows, dtype |-> "object"]

\* StateManager.load_csv: what it returns and the snapshot it leaves
load_csv(f, current) ==
    IF read_csv_raises(f) THEN [ok |-> FALSE, df |-> current]
    ELSE [ok |-> TRUE, df |-> read_csv(f)]

\* datetime.now().strftime('%Y%m%d_%H%M%S'): the time to the second
strftime(now) == now \div TicksPerSecond

\* StateManager.__init__ at time now: the run directory is
\* outputs/run_<timestamp>, made with exist_ok=True, so a directory that is
\* already there is taken over without an error
StateManagerInit(now) ==
    [created |-> now, run_dir |-> <<"outputs", "run", strftime(now)>>]

(***************************************************************************)
(* The code producers: text in, text out.                                  *)
(* A completion is a sequence of tokens: white space, the opening markdown *)
(* fence that opens a python block, the plain fence, and a piece of code.  *)
(* The empty sequence is the empty text.                                   *)
(***************************************************************************)
WS == "ws"
\* the text that opens a markdown python block
FencePy == "fence_python"
\* the text that closes a markdown block
Fence == "fence"
CodeA == "def transform_data(df): ..."

\* the completions the service answers with
Contents ==
    { <<WS>>, <<FencePy, WS, Fence>>,
      <<CodeA>>, <<FencePy, WS, CodeA, WS, Fence>>,
      <<WS, CodeA, WS, Fence>> }

\* what the service does on one call
ApiResponses ==
    { [kind |-> "no_api_key"], [kind |-> "api_error"] }
    \cup { [kind |-> "text", content |-> c] : c \in Contents }

RECURSIVE lstrip(_)
lstrip(s) == IF s # <<>> /\ Head(s) = WS THEN lstrip(Tail(s)) ELSE s

RECURSIVE rstrip(_)
rstrip(s) ==
    IF s # <<>> /\ s[Len(s)] = WS THEN rstrip(SubSeq(s, 1, Len(s) - 1)) ELSE s

\* str.strip()
strip(s) == rstrip(lstrip(s))

\* the markdown clean-up of generate_code and fix_code
strip_markdown(content) ==
    LET c1 == strip(content)
        c2 == IF c1 # <<>> /\ Head(c1) = FencePy THEN Tail(c1) ELSE c1
        c3 == IF c2 # <<>> /\ c2[Len(c2)] = Fence
              THEN SubSeq(c2, 1, Len(c2) - 1) ELSE c2
    IN  strip(c3)

\* coder_agent.generate_code: raises, or returns the cleaned completion
generate_code(resp) ==
    IF resp.kind = "no_api_key"
    THEN [raised |-> TRUE,
          msg |-> "OpenAI API key not found in environment variables"]
    ELSE IF resp.kind = "api_error"
    THEN [raised |-> TRUE, msg |-> "Error generating code: " \o "APIError"]
    ELSE [raised |-> FALSE, code |-> strip_markdown(resp.content)]

\* debugger_agent.fix_code: raises, or returns the cleaned completion
fix_code(resp) ==
    IF resp.kind = "no_api_key"
    THEN [raised |-> TRUE,
          msg |-> "OpenAI API key not found in environment variables"]
    ELSE IF resp.kind = "api_error"
    THEN [raised |-> TRUE, msg |-> "Error fixing code: " \o "APIError"]
    ELSE [raised |-> FALSE, code |-> strip_markdown(resp.content)]

(***************************************************************************)
(* The Plan Producer.                                                      *)
(* A completion is text that is not JSON, or a JSON document: a number, or *)
(* a list of objects.  A JSON number is [num |-> n], a JSON string is      *)
(* [str |-> s]; an object is a record of such values.                      *)
(***************************************************************************)
JNum(n) == [num |-> n]
JStr(x) == [str |-> x]

\* the objects of a list: the id is a number or a string, the description
\* is a text or the empty string, and either key may be missing
JsonIds == {JNum(1), JNum(2), JStr("one")}
JsonTexts == {JStr("step"), JStr("")}
JsonSteps ==
    [id : JsonIds, task : JsonTexts] \cup [id : JsonIds] \cup [task : JsonTexts]

\* the JSON lists the service answers with
JsonLists == UNION { [1..n -> JsonSteps] : n \in 0..MaxSteps }

PlanContents ==
    { [json |-> "invalid"], [json |-> "number"] }
    \cup { [json |-> "list", steps |-> l] : l \in JsonLists }

\* what the service does on one call of generate_plan
PlanResponses ==
    { [kind |-> "no_api_key"], [kind |-> "api_error"] }
    \cup { [kind |-> "text", content |-> c] : c \in PlanContents }

\* the answers the Plan Producer gives in a run of the whole pipeline: the
\* failures, the empty list and a plan of one step
PipelineResponses ==
    { [kind |-> "no_api_key"], [kind |-> "api_error"],
      [kind |-> "text", content |-> [json |-> "invalid"]],
      [kind |-> "text", content |-> [json |-> "list", steps |-> <<>>]],
      [kind |-> "text",
       content |-> [json |-> "list",
                    steps |-> <<[id |-> JNum(1), task |-> JStr("step")]>>]] }

\* json.loads of a value: a number becomes an int, a string a str
json_value(j) == IF "num" \in DOMAIN j THEN j.num ELSE j.str

\* json.loads of a list of objects that carry both keys
json_loads(steps) ==
    [i \in 1..Len(steps) |->
        [id |-> json_value(steps[i].id), task |-> json_value(steps[i].task)]]

\* the fallback plans of generate_plan
FallbackPlan(text) == <<[id |-> 1, task |-> text]>>

ParseFallbackText ==
    "Error generating plan. Please check the data profile and try again."

\* if "id" not in step or "task" not in step: raise ValueError
step_is_valid(step) == "id" \in DOMAIN step /\ "task" \in DOMAIN step

\* ds_agent.generate_plan: raises, or returns a plan
generate_plan(resp) ==
    IF resp.kind = "no_api_key"
    THEN \* raised before the try block
         [raised |-> TRUE, msg |-> "OpenAI API key not found."]
    ELSE IF resp.kind = "api_error"
    THEN [raised |-> FALSE,
          plan |-> FallbackPlan("Error generating plan: " \o "APIError")]
    ELSE IF resp.content.json = "invalid"
    THEN \* json.JSONDecodeError
         [raised |-> FALSE, plan |-> FallbackPlan(ParseFallbackText)]
    ELSE IF resp.content.json = "number"
    THEN \* TypeError: the document cannot be iterated
         [raised |-> FALSE,
          plan |-> FallbackPlan("Error generating plan: "
                                    \o "'int' object is not iterable")]
    ELSE LET steps == resp.content.steps IN
         IF \E i \in 1..Len(steps) : ~step_is_valid(steps[i])
         THEN [raised |-> FALSE,
               plan |-> FallbackPlan("Error generating plan: "
                                         \o "Invalid step format in plan")]
         ELSE [raised |-> FALSE, plan |-> json_loads(steps)]

(***************************************************************************)
(* The Isolated Executor.                                                  *)
(***************************************************************************)
\* what happens when the driver script is run: the process cannot be
\* started, or the generated code returns a frame, raises, leaves the
\* interpreter with exit code 0, or cannot be defined
Behaviours ==
    { [kind |-> "returns", out |-> d] : d \in DataFrames }
    \cup { [kind |-> "not_spawned"], [kind |-> "raises"],
           [kind |-> "exits_zero"], [kind |-> "crashes"] }

\* the driver script of execute_code, run as a subordinate process:
\* its exit code, its two streams and the table it wrote to output.csv
\* (None when it wrote nothing)
run_script(code, input_file, beh) ==
    IF read_csv_raises(input_file)
    THEN \* pd.read_csv of the input fails outside the try of the script
         [returncode |-> 1, stdout |-> "", stderr |-> "Traceback",
          output |-> None]
    ELSE IF code = <<>>
    THEN \* transform_data is not defined: NameError inside the try
         [returncode |-> 1, stdout |-> "Error during transformation",
          stderr |-> "", output |-> None]
    ELSE IF beh.kind = "returns"
    THEN [returncode |-> 0, stdout |-> "Transformation completed successfully",
          stderr |-> "", output |-> to_csv(beh.out)]
    ELSE IF beh.kind = "raises"
    THEN \* transform_data raised: caught, printed, exit(1)
         [returncode |-> 1, stdout |-> "Error during transformation",
          stderr |-> "", output |-> None]
    ELSE IF beh.kind = "exits_zero"
    THEN \* the code leaves the interpreter itself, e.g. sys.exit(0)
         [returncode |-> 0, stdout |-> "", stderr |-> "", output |-> None]
    ELSE \* SyntaxError or an error while the code is being defined
         [returncode |-> 1, stdout |-> "", stderr |-> "Traceback",
          output |-> None]

\* result.stderr or result.stdout
error_text(proc) == IF proc.stderr # "" THEN proc.stderr ELSE proc.stdout

\* variant: only the existence of the output artifact is looked at
classify_ignores_exit_code(proc, output_file) ==
    IF output_file # None
    THEN IF read_csv_raises(output_file)
         THEN [status |-> "error",
               traceback |-> "Error in code execution process"]
         ELSE [status |-> "success", dataframe |-> read_csv(output_file),
               stdout |-> proc.stdout]
    ELSE [status |-> "error", traceback |-> error_text(proc),
          returncode |-> proc.returncode]

\* the classification of the outcome of the subordinate process
classify(proc, output_file) ==
    IF proc.returncode = 0 /\ output_file # None
    THEN IF read_csv_raises(output_file)
         THEN [status |-> "error",
               traceback |-> "Error in code execution process"]
         ELSE [status |-> "success", dataframe |-> read_csv(output_file),
               stdout |-> proc.stdout]
    ELSE [status |-> "error", traceback |-> error_text(proc),
          returncode |-> proc.returncode]

\* CodeExecutor.execute_code: the result it returns and the transfer
\* artifacts it leaves behind.  input.csv and the script are rewritten by
\* every invocation before the process starts, so of these two the state
\* keeps only whether they exist; output.csv is kept with its content.
execute_code(code, input_df, artifacts, beh) ==
    LET written == [artifacts EXCEPT !.input_csv = TRUE, !.script = TRUE]
        proc    == run_script(code, to_csv(input_df), beh)
        after   == IF proc.output = None THEN written
                   ELSE [written EXCEPT !.output_csv = proc.output]
    IN  IF beh.kind = "not_spawned"
        THEN \* subprocess.run raised: the except branch of execute_code
             [result |-> [status |-> "error",
                          traceback |-> "Error in code execution process"],
              files  |-> written]
        ELSE [result |-> classify(proc, after.output_csv), files |-> after]

\* CodeExecutor(): temp_dir defaults to "temp_execution"
DefaultTempDir == "temp_execution"

\* CodeExecutor.__init__(temp_dir): the directory below the project root
\* (made with exist_ok=True) and the paths of the three artifacts; at is
\* where execute_code stands, result is what it returned last
CodeExecutorInit(temp_dir) ==
    [input_csv_path  |-> temp_dir \o "/input.csv",
     output_csv_path |-> temp_dir \o "/output.csv",
     script_path     |-> temp_dir \o "/_temp_script.py",
     at |-> "idle", returncode |-> 0, result |-> None]

\* the CodeExecutor instances that exist side by side
Instances == 1..MaxInstances

\* the paths they use
Paths ==
    { CodeExecutorInit(DefaultTempDir).input_csv_path,
      CodeExecutorInit(DefaultTempDir).output_csv_path,
      CodeExecutorInit(DefaultTempDir).script_path }

\* CodeExecutor.cleanup: unlink the three artifacts in order; an unlink that
\* raises stops the clean-up (the error is printed, not raised)
cleanup(artifacts, fails_at) ==
    IF fails_at = "input" /\ artifacts.input_csv
    THEN artifacts
    ELSE IF fails_at = "output" /\ artifacts.output_csv # None
    THEN [artifacts EXCEPT !.input_csv = FALSE]
    ELSE IF fails_at = "script" /\ artifacts.script
    THEN [artifacts EXCEPT !.input_csv = FALSE, !.output_csv = None]
    ELSE [input_csv |-> FALSE, output_csv |-> None, script |-> FALSE]

(***************************************************************************)
(* Plans and ledger entries.                                               *)
(***************************************************************************)
\* the i-th task of a plan: {'id': i, 'task': <description>}
Task(i) == [id |-> i, task |-> <<"step", i>>]

\* a plan of n tasks, in execution order
PlanOf(n) == [i \in 1..n |-> Task(i)]

\* variant: the entry is filed under the wrong stage
GenerationFailedEntry_wrong_stage(t, msg) ==
    [task_id |-> t.id, task |-> t.task, status |-> "failed",
     error |-> "Error generating code: " \o msg, stage |-> "execution"]

\* the entry appended when generate_code raises
GenerationFailedEntry(t, msg) ==
    [task_id |-> t.id, task |-> t.task, status |-> "failed",
     error |-> "Error generating code: " \o msg, stage |-> "code_generation"]

\* variant: the missing snapshot is filed as a failure of code generation
NoDataFrameEntry_wrong_stage(t) ==
    [task_id |-> t.id, task |-> t.task, status |-> "failed",
     error |-> "No DataFrame available", stage |-> "code_generation"]

\* the entry appended when the State Holder has no dataframe
NoDataFrameEntry(t) ==
    [task_id |-> t.id, task |-> t.task, status |-> "failed",
     error |-> "No DataFrame available", stage |-> "execution"]

\* variant: the loop variable is recorded as it is, counted from 0
AttemptNumber_zero_based(a) == a

\* 'attempt': attempt + 1
AttemptNumber(a) == a + 1

\* the entry appended when an execution succeeds
SuccessEntry(t, code, a) ==
    [task_id |-> t.id, task |-> t.task, code |-> code, status |-> "success",
     attempt |-> AttemptNumber(a)]

\* variant: the entry records the loop variable instead of the count
ExhaustedEntry_loop_index(t, code, err) ==
    [task_id |-> t.id, task |-> t.task, code |-> code, status |-> "failed",
     error |-> err, attempts |-> 2]

\* the entry appended when the last attempt fails
ExhaustedEntry(t, code, err) ==
    [task_id |-> t.id, task |-> t.task, code |-> code, status |-> "failed",
     error |-> err, attempts |-> 3]

\* variant: a repair is tried after every failure, the last one included
MoreAttemptsLeft_inclusive(a) == a <= 2

\* if attempt < 2: a repair is tried
MoreAttemptsLeft(a) == a < 2

\* variant: the last attempt is looked for one turn too late
IsLastAttempt_off_by_one(a) == a = 3

\* variant: the task is given up at the end of the second turn already,
\* and again at the end of the third
IsLastAttempt_from_second(a) == a >= 1

\* if attempt == 2: the task is given up
IsLastAttempt(a) == a = 2

\* variant: a repair that raises leaves no code to retry
code_after_repair_cleared(f, code) == IF f.raised THEN <<>> ELSE f.code

\* variant: the code the repair producer returns is not taken over
code_after_repair_ignored(f, code) == code

\* try: code_string = fix_code(...) except: the code is left as it was
code_after_repair(f, code) == IF f.raised THEN code ELSE f.code

\* variant: the attempt loop has four turns
LoopContinues_four_turns(a) == a + 1 < MaxAttempts + 1

\* variant: the attempt loop has two turns
LoopContinues_two_turns(a) == a + 1 < 2

\* for attempt in range(3): another turn of the attempt loop follows
LoopContinues(a) == a + 1 < MaxAttempts

(***************************************************************************)
(* The state.                                                              *)
(***************************************************************************)
VARIABLES
    df,             \* StateManager.df: the current snapshot, or None
    execution_log,  \* Orchestrator.execution_log: the ledger
    files,          \* the transfer artifacts of the CodeExecutor
    pc,             \* where run_plan stands ("idle": not running)
    plan,           \* the plan run_plan was called with
    task_idx,       \* position of task_item in the plan, from 1
    code_string,    \* the candidate code of the task
    attempt,        \* the loop variable of the attempt loop, from 0
    result,         \* what execute_code returned last
    returned,       \* [ledger |-> l]: the last call of run_plan returned l
    log_base,       \* history: len(execution_log) when run_plan was called
    task_df,        \* history: the snapshot when the task began
    last_gen,       \* history: what generate_code did for the task
    exec_calls,     \* history: execute_code calls made for the task
    last_exec,      \* history: the last execute_code call of the task
    repair_calls,   \* history: fix_code calls made for the task
    last_repair,    \* history: the fix_code call made since the last
                    \* execution (None if there was none)
    gen_calls,      \* history: generate_code calls of this run_plan call
    committed,      \* history: the dataframe loaded or returned by the
                    \* most recent successful execution
    pipeline,       \* history: the last call of run_full_pipeline
    clock,          \* the time, in ticks
    managers,       \* the StateManager instances constructed so far
    loaded,         \* history: the call of load_csv made last, where the
                    \* State Holder is followed on its own
    plan_response,  \* what the service answers to generate_plan
    plan_result,    \* what generate_plan did (None before the call)
    cleanup_calls,  \* history: CodeExecutor.cleanup calls of this call of
                    \* run_plan
    exec_total,     \* history: execute_code calls of this call of run_plan
    repair_total,   \* history: fix_code calls of this call of run_plan
    last_call,      \* history: the last call of execute_code, where the
                    \* executor is followed on its own
    shared_dir,     \* the files below the project root, by path
    instances       \* the CodeExecutor instances that use them

vars == <<df, execution_log, files, pc, plan, task_idx, code_string, attempt,
          result, returned, log_base, task_df, last_gen, exec_calls, last_exec,
          repair_calls, last_repair, gen_calls, committed, pipeline, clock,
          managers, loaded, plan_response, plan_result, cleanup_calls,
          exec_total, repair_total, last_call, shared_dir, instances>>

NoFiles == [input_csv |-> FALSE, output_csv |-> None, script |-> FALSE]

\* Orchestrator.__init__, StateManager.__init__, CodeExecutor.__init__
InitOrchestrator ==
    /\ df = None
    /\ execution_log = <<>>
    /\ files = NoFiles
    /\ pc = "idle"
    /\ plan = <<>>
    /\ task_idx = 0
    /\ code_string = <<>>
    /\ attempt = 0
    /\ result = None
    /\ returned = None
    /\ log_base = 0
    /\ task_df = None
    /\ last_gen = None
    /\ exec_calls = 0
    /\ last_exec = None
    /\ repair_calls = 0
    /\ last_repair = None
    /\ gen_calls = 0
    /\ committed = None
    /\ pipeline = None
    /\ clock = 0
    /\ managers = <<StateManagerInit(0)>>
    /\ loaded = None
    /\ plan_result = None
    /\ cleanup_calls = 0
    /\ exec_total = 0
    /\ repair_total = 0
    /\ last_call = None
    /\ shared_dir = [p \in Paths |-> None]
    /\ instances = [i \in Instances |-> CodeExecutorInit(DefaultTempDir)]

Init == InitOrchestrator /\ plan_response = None

\* StateManager.get_dataframe
get_dataframe == df

\* variant: the update leaves the State Holder without a dataframe
update_dataframe_cleared(new_df) == None

\* variant: the new dataframe is not stored
update_dataframe_not_stored(new_df) == df

\* StateManager.update_dataframe: the new value of StateManager.df
update_dataframe(new_df) == new_df

\* variant: the state is updated before the status is looked at, with
\* result.get('dataframe')
snapshot_after_unchecked(res, current_df) ==
    IF res.status = "success" THEN update_dataframe(res.dataframe) ELSE None

\* variant: the result of a successful execution is dropped
snapshot_after_dropped(res, current_df) == current_df

\* variant: a failed execution leaves the empty frame behind
snapshot_after_emptied(res, current_df) ==
    IF res.status = "success" THEN update_dataframe(res.dataframe)
    ELSE [cols |-> {}, rows |-> 0, dtype |-> "object"]

\* if result['status'] == 'success': update_dataframe(result['dataframe'])
\* the snapshot the State Holder holds once the result has been checked
snapshot_after(res, current_df) ==
    IF res.status = "success" THEN update_dataframe(res.dataframe)
    ELSE current_df

\* the task the loop is at
task_item == plan[task_idx]

\* variant: after the last task run_plan returns without the clean-up
NextTask_returns_early ==
    /\ task_idx' = task_idx + 1
    /\ pc' = IF task_idx < Len(plan) THEN "generate" ELSE "idle"

\* the for loop over the plan moves on: the next task, or the clean-up
NextTask ==
    /\ task_idx' = task_idx + 1
    /\ pc' = IF task_idx < Len(plan) THEN "generate" ELSE "cleanup"

(***************************************************************************)
(* The operations.                                                         *)
(***************************************************************************)
\* StateManager.load_csv(file_path)
LoadCsv(f) ==
    /\ pc = "idle"
    /\ df' = load_csv(f, df).df
    /\ committed' = df'
    /\ UNCHANGED <<execution_log, files, pc, plan, task_idx, code_string,
                   attempt, result, returned, log_base, task_df, last_gen,
                   exec_calls, last_exec, repair_calls, last_repair,
                   gen_calls>>
    /\ UNCHANGED <<pipeline, clock, managers, loaded, plan_response,
                   plan_result>>
    /\ UNCHANGED cleanup_calls
    /\ UNCHANGED <<exec_total, repair_total>>
    /\ UNCHANGED <<last_call, shared_dir, instances>>

\* Orchestrator.run_plan(plan) is called
RunPlan(p) ==
    /\ pc = "idle"
    /\ Len(execution_log) + Len(p) <= MaxLedger
    /\ plan' = p
    /\ task_idx' = 1
    /\ pc' = IF p = <<>> THEN "cleanup" ELSE "generate"
    /\ returned' = None
    /\ log_base' = Len(execution_log)
    /\ gen_calls' = 0
    /\ UNCHANGED <<df, execution_log, files, code_string, attempt, result,
                   task_df, last_gen, exec_calls, last_exec, repair_calls,
                   last_repair, committed>>
    /\ UNCHANGED <<pipeline, clock, managers, loaded, plan_response,
                   plan_result>>
    /\ cleanup_calls' = 0
    /\ exec_total' = 0
    /\ repair_total' = 0
    /\ UNCHANGED <<last_call, shared_dir, instances>>

\* the head of the task loop: the Code Producer is asked for code
GenerateCode ==
    /\ pc = "generate"
    /\ \E resp \in ApiResponses :
         LET g == generate_code(resp) IN
         /\ last_gen' = g
         /\ IF g.raised
            THEN /\ execution_log' =
                       Append(execution_log,
                              GenerationFailedEntry(task_item, g.msg))
                 /\ NextTask
                 /\ UNCHANGED <<code_string, attempt>>
            ELSE /\ code_string' = g.code
                 /\ attempt' = 0
                 /\ pc' = "execute"
                 /\ UNCHANGED <<execution_log, task_idx>>
    /\ task_df' = df
    /\ exec_calls' = 0
    /\ last_exec' = None
    /\ repair_calls' = 0
    /\ last_repair' = None
    /\ gen_calls' = gen_calls + 1
    /\ UNCHANGED <<df, files, plan, result, returned, log_base, committed>>
    /\ UNCHANGED <<pipeline, clock, managers, loaded, plan_response,
                   plan_result>>
    /\ UNCHANGED cleanup_calls
    /\ UNCHANGED <<exec_total, repair_total>>
    /\ UNCHANGED <<last_call, shared_dir, instances>>

\* the end of a turn of the attempt loop that failed: the task is given up
\* after the last attempt, and the loop goes to its next turn or ends
EndOfTurn(code, err) ==
    /\ execution_log' =
          IF IsLastAttempt(attempt)
          THEN Append(execution_log, ExhaustedEntry(task_item, code, err))
          ELSE execution_log
    /\ IF LoopContinues(attempt)
       THEN /\ attempt' = attempt + 1
            /\ pc' = "execute"
            /\ UNCHANGED task_idx
       ELSE /\ NextTask
            /\ UNCHANGED attempt

\* one turn of the attempt loop, up to the call of the repair producer: the
\* snapshot is read, the code is executed and the result is checked
ExecuteAttempt ==
    /\ pc = "execute"
    /\ LET current_df == get_dataframe IN
       IF current_df = None
       THEN /\ execution_log' =
                  Append(execution_log, NoDataFrameEntry(task_item))
            /\ NextTask
            /\ UNCHANGED <<df, committed, files, result, attempt, exec_calls,
                           last_exec, exec_total>>
       ELSE \E beh \in Behaviours :
              LET ex  == execute_code(code_string, current_df, files, beh)
                  res == ex.result
              IN
              /\ result' = res
              /\ files' = ex.files
              /\ exec_calls' = exec_calls + 1
              /\ exec_total' = exec_total + 1
              /\ last_exec' =
                    [number |-> exec_calls + 1, code |-> code_string,
                     input |-> current_df, basis |-> committed,
                     result |-> res]
              /\ df' = snapshot_after(res, current_df)
              /\ IF res.status = "success"
                 THEN /\ committed' = res.dataframe
                      /\ execution_log' =
                            Append(execution_log,
                                   SuccessEntry(task_item, code_string,
                                                attempt))
                      /\ NextTask
                      /\ UNCHANGED attempt
                 ELSE /\ UNCHANGED committed
                      /\ IF MoreAttemptsLeft(attempt)
                         THEN /\ pc' = "debug"
                              /\ UNCHANGED <<execution_log, task_idx, attempt>>
                         ELSE EndOfTurn(code_string, res.traceback)
    /\ last_repair' = None
    /\ UNCHANGED <<plan, code_string, returned, log_base, task_df, last_gen,
                   repair_calls, gen_calls>>
    /\ UNCHANGED <<pipeline, clock, managers, loaded, plan_response,
                   plan_result>>
    /\ UNCHANGED cleanup_calls
    /\ UNCHANGED repair_total
    /\ UNCHANGED <<last_call, shared_dir, instances>>

\* the repair producer is asked to fix the code, then the turn ends
FixCode ==
    /\ pc = "debug"
    /\ \E resp \in ApiResponses :
         LET f == fix_code(resp) IN
         /\ code_string' = code_after_repair(f, code_string)
         /\ last_repair' =
               [faulty_code |-> code_string,
                error_traceback |-> result.traceback, outcome |-> f]
    /\ repair_calls' = repair_calls + 1
    /\ EndOfTurn(code_string', result.traceback)
    /\ UNCHANGED <<df, files, plan, result, returned, log_base, task_df,
                   last_gen, exec_calls, last_exec, gen_calls, committed>>
    /\ UNCHANGED <<pipeline, clock, managers, loaded, plan_response,
                   plan_result>>
    /\ UNCHANGED cleanup_calls
    /\ repair_total' = repair_total + 1
    /\ UNCHANGED exec_total
    /\ UNCHANGED <<last_call, shared_dir, instances>>

\* the plan is exhausted: the artifacts are removed, the ledger is returned
Cleanup ==
    /\ pc = "cleanup"
    /\ \E fails_at \in {"nowhere", "input"} :
         files' = cleanup(files, fails_at)
    /\ returned' = [ledger |-> execution_log]
    /\ pc' = "idle"
    \* the locals of run_plan are gone
    /\ task_idx' = 0
    /\ code_string' = <<>>
    /\ attempt' = 0
    /\ result' = None
    /\ task_df' = None
    /\ last_gen' = None
    /\ exec_calls' = 0
    /\ last_exec' = None
    /\ repair_calls' = 0
    /\ last_repair' = None
    /\ UNCHANGED <<df, execution_log, plan, log_base, gen_calls, committed>>
    /\ UNCHANGED <<pipeline, clock, managers, loaded, plan_response,
                   plan_result>>
    /\ cleanup_calls' = cleanup_calls + 1
    /\ UNCHANGED <<exec_total, repair_total>>
    /\ UNCHANGED <<last_call, shared_dir, instances>>

\* Orchestrator.run_full_pipeline(csv_path, user_context) is called: the
\* file is loaded, the snapshot is profiled, the Plan Producer is asked for
\* a plan, and run_plan is entered with it.  create_data_profile raises for
\* a frame without a numeric or without a text column (describe finds
\* nothing to describe); the kinds of the columns are not part of a
\* dataframe here, so whether it raises is an input.
RunFullPipeline(f, profile, resp) ==
    /\ pc = "idle"
    /\ LET l == load_csv(f, df)
           d == l.df
           g == generate_plan(resp)
           outcome ==
               IF d = None \/ IsEmpty(d) THEN "no_data"
               ELSE IF profile = "raises" THEN "raised"
               ELSE IF g.raised THEN "no_plan"
               ELSE IF g.plan = <<>> THEN "empty_plan"
               ELSE "run_plan"
           asked == outcome \notin {"no_data", "raised"}
       IN
       /\ df' = d
       /\ committed' = d
       /\ pipeline' =
             [load_ok |-> l.ok,
              plan_calls |-> IF asked THEN 1 ELSE 0,
              response |-> IF asked THEN resp ELSE None,
              outcome |-> outcome]
       /\ IF outcome = "run_plan"
          THEN /\ Len(execution_log) + Len(g.plan) <= MaxLedger
               /\ plan' = g.plan
               /\ task_idx' = 1
               /\ pc' = "generate"
               /\ returned' = None
          ELSE /\ plan' = <<>>
               /\ returned' =
                     IF outcome = "raised" THEN None ELSE [ledger |-> <<>>]
               /\ UNCHANGED <<task_idx, pc>>
    /\ log_base' = Len(execution_log)
    /\ gen_calls' = 0
    /\ UNCHANGED <<execution_log, files, code_string, attempt, result,
                   task_df, last_gen, exec_calls, last_exec, repair_calls,
                   last_repair, clock, managers, loaded, plan_response,
                   plan_result>>
    /\ cleanup_calls' = 0
    /\ exec_total' = 0
    /\ repair_total' = 0
    /\ UNCHANGED <<last_call, shared_dir, instances>>

\* time passes
Tick ==
    /\ clock < MaxClock
    /\ clock' = clock + 1
    /\ UNCHANGED <<df, execution_log, files, pc, plan, task_idx, code_string,
                   attempt, result, returned, log_base, task_df, last_gen,
                   exec_calls, last_exec, repair_calls, last_repair,
                   gen_calls, committed, pipeline, managers, loaded,
                   plan_response, plan_result>>
    /\ UNCHANGED cleanup_calls
    /\ UNCHANGED <<exec_total, repair_total>>
    /\ UNCHANGED <<last_call, shared_dir, instances>>

\* StateManager() is constructed (by Orchestrator.__init__ or directly)
NewStateManager ==
    /\ Len(managers) < MaxManagers
    /\ managers' = Append(managers, StateManagerInit(clock))
    /\ UNCHANGED <<df, execution_log, files, pc, plan, task_idx, code_string,
                   attempt, result, returned, log_base, task_df, last_gen,
                   exec_calls, last_exec, repair_calls, last_repair,
                   gen_calls, committed, pipeline, clock, loaded,
                   plan_response, plan_result>>
    /\ UNCHANGED cleanup_calls
    /\ UNCHANGED <<exec_total, repair_total>>
    /\ UNCHANGED <<last_call, shared_dir, instances>>

\* StateManager.load_csv(file_path) is called on a State Holder that is not
\* part of a running plan, and what it returns is kept
LoadCsvObserved(f) ==
    /\ pc = "idle"
    /\ df' = load_csv(f, df).df
    /\ committed' = df'
    /\ loaded' = [file |-> f, ok |-> load_csv(f, df).ok]
    /\ UNCHANGED <<execution_log, files, pc, plan, task_idx, code_string,
                   attempt, result, returned, log_base, task_df, last_gen,
                   exec_calls, last_exec, repair_calls, last_repair,
                   gen_calls, pipeline, clock, managers, plan_response,
                   plan_result>>
    /\ UNCHANGED cleanup_calls
    /\ UNCHANGED <<exec_total, repair_total>>
    /\ UNCHANGED <<last_call, shared_dir, instances>>

\* the codes handed to the executor: the empty text and a transformation
Codes == {<<>>, <<CodeA>>}

\* CodeExecutor.execute_code(code_string, input_df) is called on an executor
\* that is not part of a running plan; what the subordinate process did and
\* what the call returned are kept
ExecuteCodeCall(code, input_df, beh) ==
    /\ pc = "idle"
    /\ LET ex      == execute_code(code, input_df, files, beh)
           spawned == beh.kind # "not_spawned"
       IN
       /\ files' = ex.files
       /\ last_call' =
             [code |-> code, input_df |-> input_df,
              spawned |-> spawned,
              proc |-> IF spawned
                       THEN run_script(code, to_csv(input_df), beh)
                       ELSE None,
              output_before |-> files.output_csv,
              output_after  |-> ex.files.output_csv,
              result |-> ex.result]
    /\ UNCHANGED <<df, execution_log, pc, plan, task_idx, code_string,
                   attempt, result, returned, log_base, task_df, last_gen,
                   exec_calls, last_exec, repair_calls, last_repair,
                   gen_calls, committed, pipeline, clock, managers, loaded,
                   plan_response, plan_result, cleanup_calls, exec_total,
                   repair_total, shared_dir, instances>>

\* CodeExecutor.cleanup() is called on that executor
CleanupCall ==
    /\ pc = "idle"
    /\ \E fails_at \in {"nowhere", "input", "output", "script"} :
         files' = cleanup(files, fails_at)
    /\ UNCHANGED <<df, execution_log, pc, plan, task_idx, code_string,
                   attempt, result, returned, log_base, task_df, last_gen,
                   exec_calls, last_exec, repair_calls, last_repair,
                   gen_calls, committed, pipeline, clock, managers, loaded,
                   plan_response, plan_result, cleanup_calls, exec_total,
                   repair_total, last_call, shared_dir, instances>>

\* everything but the shared files and the executors that use them
orchestrator_vars ==
    <<df, execution_log, files, pc, plan, task_idx, code_string, attempt,
      result, returned, log_base, task_df, last_gen, exec_calls, last_exec,
      repair_calls, last_repair, gen_calls, committed, pipeline, clock,
      managers, loaded, plan_response, plan_result, cleanup_calls,
      exec_total, repair_total, last_call>>

\* execute_code of instance i, first step: input_df.to_csv(input_csv_path).
\* A file is known by the instance that wrote it.
WriteInput(i) ==
    /\ instances[i].at = "idle"
    /\ shared_dir' =
          [shared_dir EXCEPT ![instances[i].input_csv_path] =
              [written_by |-> i]]
    /\ instances' =
          [instances EXCEPT ![i].at = "input_written", ![i].result = None]
    /\ UNCHANGED orchestrator_vars

\* second step: the driver script is written; it names the input and the
\* output path of the instance and holds its code
WriteScript(i) ==
    /\ instances[i].at = "input_written"
    /\ shared_dir' =
          [shared_dir EXCEPT ![instances[i].script_path] =
              [written_by |-> i,
               reads  |-> instances[i].input_csv_path,
               writes |-> instances[i].output_csv_path]]
    /\ instances' = [instances EXCEPT ![i].at = "script_written"]
    /\ UNCHANGED orchestrator_vars

\* third step: subprocess.run(["python", script_path]) runs whatever the
\* script file holds now, on whatever the input file holds now
RunProcess(i, returns) ==
    /\ instances[i].at = "script_written"
    /\ LET script == shared_dir[instances[i].script_path]
           input  == IF script = None THEN None ELSE shared_dir[script.reads]
           wrote  == script # None /\ input # None /\ returns
       IN
       /\ shared_dir' =
             IF wrote
             THEN [shared_dir EXCEPT ![script.writes] =
                      [from_input |-> input.written_by,
                       from_code  |-> script.written_by]]
             ELSE shared_dir
       /\ instances' =
             [instances EXCEPT ![i].at = "process_done",
                               ![i].returncode =
                                   IF wrote THEN 0
                                   ELSE IF script = None THEN 2 ELSE 1]
    /\ UNCHANGED orchestrator_vars

\* last step: the exit code and the existence of the output are tested and
\* the output is read
ReadOutput(i) ==
    /\ instances[i].at = "process_done"
    /\ LET out == shared_dir[instances[i].output_csv_path] IN
       instances' =
          [instances EXCEPT
             ![i].at = "idle",
             ![i].result =
                 IF instances[i].returncode = 0 /\ out # None
                 THEN [status |-> "success", dataframe |-> out]
                 ELSE [status |-> "error"]]
    /\ UNCHANGED shared_dir
    /\ UNCHANGED orchestrator_vars

\* CodeExecutor.cleanup of instance i, at the end of its run_plan
CleanupFiles(i) ==
    /\ instances[i].at = "idle"
    /\ instances[i].result # None
    /\ shared_dir' =
          [p \in Paths |->
              IF p \in {instances[i].input_csv_path,
                        instances[i].output_csv_path,
                        instances[i].script_path}
              THEN None ELSE shared_dir[p]]
    /\ instances' = [instances EXCEPT ![i].result = None]
    /\ UNCHANGED orchestrator_vars

\* ds_agent.generate_plan(data_profile, user_context) is called
GeneratePlan ==
    /\ plan_result = None
    /\ plan_result' = generate_plan(plan_response)
    /\ UNCHANGED <<df, execution_log, files, pc, plan, task_idx, code_string,
                   attempt, result, returned, log_base, task_df, last_gen,
                   exec_calls, last_exec, repair_calls, last_repair,
                   gen_calls, committed, pipeline, clock, managers, loaded,
                   plan_response>>
    /\ UNCHANGED cleanup_calls
    /\ UNCHANGED <<exec_total, repair_total>>
    /\ UNCHANGED <<last_call, shared_dir, instances>>

Next ==
    \/ \E f \in InputFiles : LoadCsv(f)
    \/ \E n \in 0..MaxLedger : RunPlan(PlanOf(n))
    \/ GenerateCode
    \/ ExecuteAttempt
    \/ FixCode
    \/ Cleanup

Spec == Init /\ [][Next]_vars

\* every call of a producer or of the executor returns
FairSpec ==
    Spec /\ WF_vars(GenerateCode \/ ExecuteAttempt \/ FixCode \/ Cleanup)

\* the Orchestrator is driven through run_full_pipeline
PipelineNext ==
    \/ \E f \in InputFiles, profile \in {"ok", "raises"},
          resp \in PipelineResponses : RunFullPipeline(f, profile, resp)
    \/ GenerateCode
    \/ ExecuteAttempt
    \/ FixCode
    \/ Cleanup

PipelineSpec == Init /\ [][PipelineNext]_vars

\* the Plan Producer alone: the service answers, generate_plan is applied
PlanInit == InitOrchestrator /\ plan_response \in PlanResponses

PlanNext == GeneratePlan

PlanSpec == PlanInit /\ [][PlanNext]_vars

\* the Isolated Executor alone: any sequence of calls on one CodeExecutor
ExecutorNext ==
    \/ \E code \in Codes, input_df \in DataFrames, beh \in Behaviours :
          ExecuteCodeCall(code, input_df, beh)
    \/ CleanupCall

ExecutorSpec == Init /\ [][ExecutorNext]_vars

\* Orchestrator instances made by default construction run side by side:
\* the steps of their execute_code calls interleave
SharedDirNext ==
    \E i \in Instances :
        \/ WriteInput(i)
        \/ WriteScript(i)
        \/ \E returns \in BOOLEAN : RunProcess(i, returns)
        \/ ReadOutput(i)
        \/ CleanupFiles(i)

SharedDirSpec == Init /\ [][SharedDirNext]_vars

\* the State Holder alone: instances are constructed as time passes, and
\* files are loaded into the first of them
StateManagerNext ==
    \/ Tick
    \/ NewStateManager
    \/ \E f \in InputFiles : LoadCsvObserved(f)

StateManagerSpec == Init /\ [][StateManagerNext]_vars

(***************************************************************************)
(* Properties.                                                             *)
(***************************************************************************)
\* a task has just ended: its terminal entry is the last of the ledger and
\* the history variables still describe it
TaskEnded == pc \in {"generate", "cleanup"} /\ task_idx > 1

\* the entry appended last
EndedEntry ==
    IF execution_log = <<>> THEN None
    ELSE execution_log[Len(execution_log)]

Failed(e) == "status" \in DOMAIN e /\ e.status = "failed"
Succeeded(e) == "status" \in DOMAIN e /\ e.status = "success"
HasStage(e, stage) == "stage" \in DOMAIN e /\ e.stage = stage

\* the entry carries an attempts count, under either of its two keys
HasCount(e) == "attempt" \in DOMAIN e \/ "attempts" \in DOMAIN e
Count(e) == IF "attempt" \in DOMAIN e THEN e.attempt ELSE e.attempts

\* the last executor invocation of the task returned this status
LastExecWas(status) == last_exec # None /\ last_exec.result.status = status

\* C1: a task that ends with a failed entry (generation failure, missing
\* snapshot or three failed executions) leaves the snapshot as it found it:
\* the snapshot after the task is the one the task began with, and the one
\* its executions were given.
C1_FailedTaskKeepsSnapshot ==
    (TaskEnded /\ Failed(EndedEntry)) =>
        /\ df = task_df
        /\ (exec_calls > 0 => last_exec.input = df)

\* a task with a snapshot has failed three executions
C1_Witness ==
    /\ TaskEnded /\ Failed(EndedEntry)
    /\ exec_calls = MaxAttempts /\ df # None

\* C2: when the executor returns Success, the task is over at once (no
\* further executor or repair invocation) and the snapshot is exactly the
\* dataframe the executor returned.
C2_SuccessIsCommitted ==
    LastExecWas("success") =>
        /\ pc \in {"generate", "cleanup"}
        /\ df = last_exec.result.dataframe
        /\ exec_calls = last_exec.number
        /\ repair_calls = exec_calls - 1

\* a first attempt succeeded and changed the snapshot
C2_Witness ==
    /\ LastExecWas("success") /\ exec_calls = 1
    /\ df # task_df

\* C3: every executor invocation is given the dataframe committed by the
\* most recent successful execution (the loaded one if none succeeded yet).
C3_InputIsCommitted ==
    last_exec # None => last_exec.input = last_exec.basis

\* task 1 succeeded and task 2 is at its second execution
C3_Witness ==
    /\ pc = "debug" /\ task_idx = 2 /\ exec_calls = 2
    /\ Len(execution_log) = log_base + 1
    /\ Succeeded(execution_log[log_base + 1])
    /\ last_exec.input = df

\* C4 as stated: every ledger entry records an attempts count in 1..3, and
\* every failed entry records exactly 3.
C4_EveryEntryCountsAttempts ==
    \A i \in 1..Len(execution_log) :
        LET e == execution_log[i] IN
        /\ HasCount(e)
        /\ Count(e) \in 1..MaxAttempts
        /\ (Failed(e) => Count(e) = MaxAttempts)

\* C4 as amended: an entry recorded for an executor outcome (success, or the
\* failure of the last attempt) records an attempts count in 1..3, exactly 3
\* when it is failed; an entry recorded for a generation failure or a
\* missing snapshot (an entry with a stage) is failed and records no count.
C4_ExecutedEntriesCountAttempts ==
    \A i \in 1..Len(execution_log) :
        LET e == execution_log[i] IN
        IF "stage" \in DOMAIN e
        THEN Failed(e) /\ ~HasCount(e)
        ELSE /\ HasCount(e)
             /\ Count(e) \in 1..MaxAttempts
             /\ (Failed(e) => Count(e) = MaxAttempts)

\* the ledger holds an entry with a stage and an entry of an exhausted task
C4_Witness ==
    /\ Len(execution_log) = 2
    /\ "stage" \in DOMAIN execution_log[1]
    /\ Failed(execution_log[2]) /\ HasCount(execution_log[2])

\* C5: the ledger run_plan returns has as many entries as the plan it was
\* called with has tasks, also on a later call on the same Orchestrator.
C5_ReturnedLedgerMatchesPlan ==
    returned # None => Len(returned.ledger) = Len(plan)

\* C6: after three failed executions the entry is failed, with attempts 3,
\* the error text and the code of the third execution; no repair follows the
\* third failure.
C6_ExhaustedEntry ==
    /\ (TaskEnded /\ exec_calls = MaxAttempts /\ LastExecWas("error")) =>
          LET e == EndedEntry IN
          /\ Failed(e)
          /\ "attempts" \in DOMAIN e /\ e.attempts = 3
          /\ e.error = last_exec.result.traceback
          /\ e.code = last_exec.code
          /\ repair_calls = 2
    /\ (pc = "debug" => exec_calls < MaxAttempts)

\* three executions failed, and the third ran repaired code
C6_Witness ==
    /\ TaskEnded /\ exec_calls = MaxAttempts /\ LastExecWas("error")
    /\ last_exec.code # last_gen.code

\* C7: a task whose execution succeeds on attempt k gets a success entry
\* that records k, the number of executor invocations made for the task.
C7_SuccessEntryAttempt ==
    (TaskEnded /\ LastExecWas("success")) =>
        LET e == EndedEntry IN
        /\ Succeeded(e)
        /\ "attempt" \in DOMAIN e
        /\ e.attempt = exec_calls
        /\ e.attempt = repair_calls + 1
        /\ e.attempt \in 1..MaxAttempts

\* the first execution failed, the repaired code succeeded: {success, 2}
C7_Witness ==
    /\ TaskEnded /\ LastExecWas("success")
    /\ exec_calls = 2 /\ last_exec.code # last_gen.code

\* C8: when the Code Producer raises, the task gets exactly one entry,
\* failed with stage code_generation, neither the executor nor the repair
\* producer is called for it, and the loop is at the next task.
C8_GenerationFailure ==
    (last_gen # None /\ last_gen.raised) =>
        LET e == EndedEntry IN
        /\ pc \in {"generate", "cleanup"}
        /\ (pc = "generate") = (task_idx <= Len(plan))
        /\ Len(execution_log) = log_base + task_idx - 1
        /\ Failed(e) /\ HasStage(e, "code_generation")
        /\ e.task_id = plan[task_idx - 1].id
        /\ exec_calls = 0 /\ repair_calls = 0

\* the producer raised for task 1 and the loop is at task 2
C8_Witness ==
    /\ last_gen # None /\ last_gen.raised
    /\ pc = "generate" /\ task_idx = 2 /\ df # None

\* C9: when the Code Producer returns empty code, the task fails at code
\* generation and the executor is not called for it.
C9_EmptyCodeIsFailure ==
    (last_gen # None /\ ~last_gen.raised /\ last_gen.code = <<>>) =>
        /\ exec_calls = 0
        /\ (TaskEnded => HasStage(EndedEntry, "code_generation"))

\* every task of the plan has its entry, in plan order, the Code Producer
\* was called once per task, and run_plan has returned
AllTasksRecorded ==
    /\ pc = "idle" /\ returned # None
    /\ Len(execution_log) = log_base + Len(plan)
    /\ \A i \in 1..Len(plan) :
          execution_log[log_base + i].task_id = plan[i].id
    /\ gen_calls = Len(plan)

\* C10: whatever the outcomes of the tasks, if every call returns, a running
\* plan ends with a terminal entry for every task and one Code Producer call
\* per task.
C10_PlanRunsToCompletion == (pc # "idle") ~> AllTasksRecorded

\* a plan of two tasks has returned: task 1 exhausted its attempts and
\* task 2 succeeded
C10_Witness ==
    /\ AllTasksRecorded /\ Len(plan) = 2
    /\ Failed(execution_log[log_base + 1])
    /\ HasCount(execution_log[log_base + 1])
    /\ Succeeded(execution_log[log_base + 2])

\* C11: when the State Holder has no snapshot as a task reaches execution,
\* the step taken records one entry for the task, failed with stage
\* execution, calls neither the executor nor the repair producer (no
\* artifact is written, no retry is made) and moves to the next task.
C11_NoSnapshotNoRetry ==
    [][(pc = "execute" /\ df = None) =>
          LET e == execution_log'[Len(execution_log')] IN
          /\ Len(execution_log') = Len(execution_log) + 1
          /\ Failed(e) /\ HasStage(e, "execution")
          /\ e.task_id = task_item.id
          /\ exec_calls' = 0 /\ repair_calls' = 0
          /\ files' = files
          /\ task_idx' = task_idx + 1
          /\ pc' \in {"generate", "cleanup"}]_vars

\* task 1 found no snapshot, was not executed, and the loop is at task 2
C11_Witness ==
    /\ TaskEnded /\ HasStage(EndedEntry, "execution")
    /\ pc = "generate" /\ task_idx = 2
    /\ df = None /\ exec_calls = 0 /\ last_gen # None /\ ~last_gen.raised

\* C12: when the repair producer raises after a failed execution, the
\* attempt loop goes on to its next turn without recording an entry, and the
\* execution made in that turn runs the code of the execution that failed.
C12_RepairFailureKeepsCode ==
    [][/\ (pc = "debug" /\ last_repair' # None
            /\ last_repair'.outcome.raised) =>
              /\ pc' = "execute"
              /\ attempt' = attempt + 1
              /\ code_string' = last_exec.code
              /\ execution_log' = execution_log
       /\ (pc = "execute" /\ last_repair # None
            /\ last_repair.outcome.raised) =>
              /\ exec_calls' = exec_calls + 1
              /\ last_exec'.code = last_exec.code]_vars

\* the second repair raised: the third execution is about to run the code
\* that failed the second
C12_Witness ==
    /\ pc = "execute" /\ exec_calls = 2 /\ attempt = 2
    /\ last_repair # None /\ last_repair.outcome.raised
    /\ code_string = <<CodeA>>

\* C13: when the initial load of run_full_pipeline fails, the pipeline
\* returns an empty ledger and calls neither the Plan Producer, nor the Code
\* Producer, nor the executor, also when the Orchestrator holds a snapshot
\* of an earlier load.
C13_FailedLoadReturnsEmpty ==
    (pipeline # None /\ ~pipeline.load_ok) =>
        /\ pc = "idle"
        /\ returned = [ledger |-> <<>>]
        /\ pipeline.plan_calls = 0
        /\ gen_calls = 0 /\ exec_calls = 0

\* the file is missing, is not a table, or holds no row of data
IsUnloadable(f) == f = None \/ f = Garbled \/ f.cols = {} \/ f.rows = 0

\* C14: load_csv reports failure for a missing file, for a file that cannot
\* be parsed and for an empty result, and when it reports success the
\* snapshot is present and not empty.
C14_LoadReportsFailure ==
    loaded # None =>
        /\ (IsUnloadable(loaded.file) => ~loaded.ok)
        /\ (loaded.ok => (df # None /\ ~IsEmpty(df)))

\* the texts of the fallback plans
FallbackTexts ==
    { ParseFallbackText,
      "Error generating plan: " \o "APIError",
      "Error generating plan: " \o "'int' object is not iterable",
      "Error generating plan: " \o "Invalid step format in plan" }

\* the plan is a single task that describes an error
IsFallbackPlan(p) ==
    Len(p) = 1 /\ p[1].task \in FallbackTexts /\ p[1].id = 1

\* the Plan Producer failed: no credential, no service, no JSON
PlanProducerFailed(resp) ==
    \/ resp.kind \in {"no_api_key", "api_error"}
    \/ resp.kind = "text" /\ resp.content.json = "invalid"

\* C15: whatever the failure of the Plan Producer (missing credential,
\* unreachable service, unparseable answer), run_full_pipeline enters
\* run_plan with the fallback plan and returns a ledger of one entry.
C15_PlanFailureFallsBack ==
    (pipeline # None /\ pipeline.plan_calls = 1
        /\ PlanProducerFailed(pipeline.response)) =>
        /\ pipeline.outcome = "run_plan"
        /\ IsFallbackPlan(plan)
        /\ (returned # None => Len(returned.ledger) = 1)

\* the steps of a JSON list all carry a numeric id and a non-empty
\* description, and no id occurs twice
WellFormedSteps(steps) ==
    /\ \A i \in 1..Len(steps) :
          /\ DOMAIN steps[i] = {"id", "task"}
          /\ "num" \in DOMAIN steps[i].id
          /\ "str" \in DOMAIN steps[i].task /\ steps[i].task.str # ""
    /\ \A i, j \in 1..Len(steps) :
          i # j => steps[i].id # steps[j].id

\* C16: a plan returned by generate_plan is the answer of the service when
\* that is a list of tasks with distinct numeric ids and non-empty
\* descriptions, and the fallback plan for every other answer.
C16_OnlyValidatedPlans ==
    (plan_result # None /\ ~plan_result.raised) =>
        LET r == plan_response IN
        IF r.kind = "text" /\ r.content.json = "list"
              /\ WellFormedSteps(r.content.steps)
        THEN plan_result.plan = json_loads(r.content.steps)
        ELSE IsFallbackPlan(plan_result.plan)

\* C17: any two StateManager instances have different run directories.
C17_DisjointRunDirectories ==
    \A i, j \in 1..Len(managers) :
        i # j => managers[i].run_dir # managers[j].run_dir

\* C18: a task sees at most 3 executor and at most 2 repair invocations; a
\* repair invocation follows a failed execution on attempt 1 or 2 with no
\* other invocation in between, is given the code of that execution and its
\* error text, and the code it returns is the code of the next execution.
C18_RepairCycle ==
    [][/\ exec_calls' <= MaxAttempts
       /\ repair_calls' <= MaxAttempts - 1
       /\ (repair_calls' = repair_calls + 1) =>
              /\ LastExecWas("error")
              /\ exec_calls \in {1, 2} /\ exec_calls' = exec_calls
              /\ repair_calls = exec_calls - 1
              /\ last_repair'.faulty_code = last_exec.code
              /\ last_repair'.error_traceback = last_exec.result.traceback
              /\ pc' = "execute"
       /\ (pc = "execute" /\ last_repair # None
            /\ ~last_repair.outcome.raised) =>
              /\ exec_calls' = exec_calls + 1
              /\ last_exec'.code = last_repair.outcome.code]_vars

\* the second repair returned code that differs from the code that failed;
\* the third execution is about to run
C18_Witness ==
    /\ pc = "execute" /\ exec_calls = 2 /\ repair_calls = 2
    /\ last_repair # None /\ ~last_repair.outcome.raised
    /\ last_repair.outcome.code # last_repair.faulty_code

\* C19: in a call of run_plan the clean-up of the executor is invoked once:
\* when every task of the plan has its terminal entry, in the step in which
\* the ledger is returned; run_plan does not return without it, and no
\* execution follows it before run_plan is called again.
C19_CleanupOnce ==
    [][/\ cleanup_calls' <= 1
       /\ (cleanup_calls' = cleanup_calls + 1) =>
              /\ pc = "cleanup" /\ returned = None
              /\ Len(execution_log) = log_base + Len(plan)
              /\ (plan # <<>> => EndedEntry.task_id = plan[Len(plan)].id)
              /\ execution_log' = execution_log
       /\ (pc # "idle" /\ pc' = "idle") =>
              /\ cleanup_calls' = 1
              /\ returned' = [ledger |-> execution_log]
       /\ (cleanup_calls = 1 /\ cleanup_calls' = 1) =>
              /\ exec_calls' = exec_calls
              /\ files' = files]_vars

\* a plan of two tasks, one failed and one succeeded, has returned after
\* one clean-up
C19_Witness ==
    /\ pc = "idle" /\ cleanup_calls = 1 /\ Len(plan) = 2
    /\ returned # None
    /\ Failed(execution_log[log_base + 1])
    /\ Succeeded(execution_log[log_base + 2])
    /\ files = NoFiles

\* tasks of this call whose Code Producer call was made and whose terminal
\* entry is not recorded yet
InFlight == gen_calls - (Len(execution_log) - log_base)

\* C20: while a plan runs, the tasks before the current one all have their
\* terminal entries, in plan order, and the current task has none; the
\* Code Producer was called for no later task, so at most one task is
\* between its first producer call and its terminal entry.
C20_StrictlySequential ==
    /\ InFlight \in {0, 1}
    /\ pc \in {"generate", "execute", "debug"} =>
          /\ Len(execution_log) = log_base + task_idx - 1
          /\ \A i \in 1..(task_idx - 1) :
                execution_log[log_base + i].task_id = plan[i].id
          /\ gen_calls = task_idx - (IF pc = "generate" THEN 1 ELSE 0)
          /\ InFlight = (IF pc = "generate" THEN 0 ELSE 1)
    /\ pc = "generate" => (exec_calls > 0 => TaskEnded)

\* task 1 has its terminal entry after three executions and task 2 is
\* being executed
C20_Witness ==
    /\ pc = "debug" /\ task_idx = 2 /\ exec_calls = 1
    /\ Len(execution_log) = log_base + 1
    /\ Failed(execution_log[log_base + 1])
    /\ HasCount(execution_log[log_base + 1])

\* the text of the captured streams: stderr, or stdout when stderr is empty
StreamText(proc) == IF proc.stderr # "" THEN proc.stderr ELSE proc.stdout

\* the dataframe is what the file deserializes to
Deserializes(file, d) == d.cols = file.cols /\ d.rows = file.rows

\* C21 as stated: execute_code returns Success exactly when the process
\* exited with code 0 and the output artifact exists, with the deserialized
\* artifact; in every other case it returns Failure with the text of the
\* captured streams.
C21_SuccessIffExitZeroAndOutput ==
    last_call # None =>
        LET c == last_call
            r == last_call.result
        IN  IF c.spawned /\ c.proc.returncode = 0 /\ c.output_after # None
            THEN /\ r.status = "success"
                 /\ Deserializes(c.output_after, r.dataframe)
            ELSE /\ r.status = "error"
                 /\ c.spawned
                 /\ r.traceback = StreamText(c.proc)

\* C21 as amended: Success exactly when the process was started, exited
\* with code 0, and the output artifact exists and can be deserialized, with
\* the deserialized artifact; Failure with the text of the captured streams
\* when the process exited with another code or no artifact exists; Failure
\* with a text that describes the exception when the process could not be
\* started or the artifact could not be deserialized.
C21_SuccessIffReadableOutput ==
    last_call # None =>
        LET c == last_call
            r == last_call.result
        IN  IF ~c.spawned
            THEN /\ r.status = "error"
                 /\ r.traceback = "Error in code execution process"
            ELSE IF c.proc.returncode = 0 /\ c.output_after # None
            THEN IF c.output_after.cols # {}
                 THEN /\ r.status = "success"
                      /\ Deserializes(c.output_after, r.dataframe)
                 ELSE /\ r.status = "error"
                      /\ r.traceback = "Error in code execution process"
            ELSE /\ r.status = "error"
                 /\ r.traceback = StreamText(c.proc)

\* the process exited with code 0 and wrote an artifact without columns:
\* the call returned Failure
C21_Witness ==
    /\ last_call # None /\ last_call.spawned
    /\ last_call.proc.returncode = 0
    /\ last_call.output_after # None
    /\ last_call.result.status = "error"

\* C25: a Success snapshot is the output the subordinate process of that
\* same invocation wrote; an artifact left by an earlier invocation is not
\* returned as Success.
C25_SuccessIsFresh ==
    (last_call # None /\ last_call.result.status = "success") =>
        /\ last_call.proc.output # None
        /\ Deserializes(last_call.proc.output, last_call.result.dataframe)

\* the step commits the result of an executor Success
CommitsSuccess ==
    /\ pc = "execute"
    /\ exec_calls' = exec_calls + 1
    /\ last_exec'.result.status = "success"
    /\ df' = last_exec'.result.dataframe

\* C22 as stated: the snapshot changes only in a step in which the
\* Execution Loop commits the result of an executor Success; no other
\* operation, the load included, changes it.
C22_OnlyCommitWrites == [][df' # df => CommitsSuccess]_vars

\* C22 as amended: while a plan runs the snapshot changes only in a step in
\* which the Execution Loop commits the result of an executor Success; the
\* only other writer is the load operation, which stores the table it read
\* and is called outside run_plan.
C22_CommitOrLoadWrites ==
    [][df' # df =>
          \/ CommitsSuccess
          \/ /\ pc = "idle" /\ pc' = "idle"
             /\ df' # None /\ df'.dtype = "object"
             /\ execution_log' = execution_log]_vars

\* the first execution of a task failed and left the snapshot alone, the
\* second succeeded and replaced it
C22_Witness ==
    /\ pc \in {"generate", "cleanup"} /\ LastExecWas("success")
    /\ exec_calls = 2 /\ repair_calls = 1
    /\ task_df # None /\ df # task_df

\* C23: the ledger only grows, one entry at a time and at its end; an
\* entry is appended only for the task the loop is at, as that task ends,
\* so that the tasks before the current one have one entry each, in plan
\* order, and when the plan is exhausted every task has one.
C23_LedgerAppendOnly ==
    [][/\ \/ execution_log' = execution_log
          \/ /\ Len(execution_log') = Len(execution_log) + 1
             /\ SubSeq(execution_log', 1, Len(execution_log)) = execution_log
             /\ pc \in {"generate", "execute", "debug"}
             /\ execution_log'[Len(execution_log')].task_id = task_item.id
             /\ Len(execution_log') = log_base + task_idx
             /\ task_idx' = task_idx + 1
       /\ pc' = "cleanup" => Len(execution_log') = log_base' + Len(plan')]_vars

\* both tasks of a plan have their entry, a success and a generation
\* failure, and the plan is exhausted
C23_Witness ==
    /\ pc = "cleanup" /\ Len(plan) = 2 /\ log_base = 0
    /\ Len(execution_log) = 2
    /\ Succeeded(execution_log[1]) /\ execution_log[1].task_id = 1
    /\ HasStage(execution_log[2], "code_generation")
    /\ execution_log[2].task_id = 2

\* C26: if every call returns, run_plan returns for every plan; for a plan of
\* n tasks it has then made exactly n Code Producer calls, at most 3n
\* executor invocations and at most 2n repair calls, and at no moment on the
\* way has it made more than three executor invocations and two repair calls
\* per Code Producer call.
C26_TerminatesWithinCallBudget ==
    /\ [](/\ gen_calls <= Len(plan)
          /\ exec_total <= MaxAttempts * gen_calls
          /\ repair_total <= (MaxAttempts - 1) * gen_calls)
    /\ (pc # "idle") ~>
          (/\ AllTasksRecorded
           /\ gen_calls = Len(plan)
           /\ exec_total <= MaxAttempts * Len(plan)
           /\ repair_total <= (MaxAttempts - 1) * Len(plan))

\* a plan of two tasks has returned after two Code Producer calls, six
\* executor invocations and four repair calls
C26_Witness ==
    /\ AllTasksRecorded /\ Len(plan) = 2
    /\ gen_calls = 2 /\ exec_total = 6 /\ repair_total = 4

\* C24: with the executions of two Orchestrator instances interleaved, a
\* Success an instance returns holds a snapshot computed from its own input
\* by its own code.
C24_ArtifactsPerInstance ==
    \A i \in Instances :
        LET r == instances[i].result IN
        (r # None /\ r.status = "success") =>
            /\ r.dataframe.from_input = i
            /\ r.dataframe.from_code = i

\* the entries run_plan has appended since it was called
EntriesOfRun ==
    { execution_log[i] : i \in (log_base + 1)..Len(execution_log) }

\* C27: while run_plan runs, a snapshot the State Holder holds never becomes
\* absent; a missing-snapshot entry (failed, stage execution) is appended
\* only on the first attempt of a task, before any executor invocation; and
\* once one task of the running plan has such an entry the snapshot is
\* absent and every entry of that run is a generation failure or a
\* missing-snapshot failure, so every task that passes generation gets one.
C27_SnapshotStaysPresent ==
    /\ [][/\ (pc # "idle" /\ df # None) => df' # None
          /\ (/\ Len(execution_log') = Len(execution_log) + 1
              /\ HasStage(execution_log'[Len(execution_log')], "execution"))
                => (attempt = 0 /\ exec_calls = 0 /\ df = None)]_vars
    /\ [](pc # "idle" =>
            ((\E e \in EntriesOfRun : HasStage(e, "execution")) =>
                /\ df = None
                /\ exec_total = 0 /\ repair_total = 0
                /\ \A e \in EntriesOfRun :
                      /\ Failed(e)
                      /\ HasStage(e, "code_generation")
                            \/ HasStage(e, "execution")))

\* a plan of two tasks has been gone through without a snapshot: the code
\* of both tasks was generated and both have the missing-snapshot entry
C27_Witness ==
    /\ pc = "cleanup" /\ Len(plan) = 2 /\ df = None
    /\ Len(execution_log) = log_base + 2
    /\ \A e \in EntriesOfRun : Failed(e) /\ HasStage(e, "execution")

====
